---- MODULE Spec2Model ----
(***************************************************************************)
(* A model of pygccxml/parser/source_reader.py: the typedef/class alias    *)
(* binder (bind_aliases) and the source reader's operations (read_file,    *)
(* read_string, read_xml_file, create_xml_file and                         *)
(* create_xml_file_from_string) with their cache, path resolution,         *)
(* temporary files and external tool invocation, one invocation at a time  *)
(* and two at a time.                                                      *)
(***************************************************************************)
EXTENDS Integers, Sequences, FiniteSets, TLC

\* ------------------------------------------------------------------ bounds
\* Longest declaration list handed to bind_aliases by a direct caller.
MaxDecls == 2

\* --------------------------------------------------- the declaration model
\* Declaration objects, by identity.  class_types are the class-like kinds.
Classes == {"A", "B"}
Enums == {"E"}
Typedefs == {"T1", "T2"}
Namespaces == {"::", "ns"}
Decls == Classes \cup Enums \cup Typedefs

\* The declarations a caller's list is drawn from: the typedefs, which the
\* loop visits, and the classes, which it skips as it skips any other kind.
Listed == Classes \cup Typedefs

NoDecl == "None"

\* isinstance(decl, typedef_t)
IsTypedef(decl) == decl \in Typedefs

\* isinstance(cls_inst, class_types)
IsClassType(decl) == decl \in Classes

\* isinstance(inst, namespace_t)
IsNamespace(decl) == decl \in Namespaces

\* Type objects: fundamental, declarated (names a declaration), pointer.
Fundamental == [kind |-> "fundamental"]
Declarated(decl) == [kind |-> "declarated", declaration |-> decl]
Pointer(base) == [kind |-> "pointer", base |-> base]

\* isinstance(type_, declarated_t)
IsDeclarated(type_) == type_.kind = "declarated"

\* remove_alias: chase through typedefs to the underlying type.  tp maps each
\* typedef to its (linked) type.
RECURSIVE remove_alias(_, _)
remove_alias(type_, tp) ==
    IF IsDeclarated(type_) /\ IsTypedef(type_.declaration)
    THEN remove_alias(tp[type_.declaration], tp)
    ELSE IF type_.kind = "pointer"
         THEN Pointer(remove_alias(type_.base, tp))
         ELSE type_

\* The loop of bind_aliases over the typedefs, one iteration per call:
\* visited holds the identities of the classes already cleared in this run,
\* al maps each class to its aliases list.
RECURSIVE bind_loop(_, _, _, _)
bind_loop(typedefs, tp, visited, al) ==
    IF typedefs = <<>> THEN al
    ELSE LET decl == Head(typedefs)
             type_ == remove_alias(tp[decl], tp)
         IN  IF ~IsDeclarated(type_)
             THEN bind_loop(Tail(typedefs), tp, visited, al)
             ELSE LET cls_inst == type_.declaration
                  IN  IF ~IsClassType(cls_inst)
                      THEN bind_loop(Tail(typedefs), tp, visited, al)
                      ELSE LET cleared == IF cls_inst \notin visited
                                          THEN [al EXCEPT ![cls_inst] = <<>>]
                                          ELSE al
                           IN  bind_loop(Tail(typedefs), tp,
                                         visited \cup {cls_inst},
                                         [cleared EXCEPT
                                            ![cls_inst] = Append(@, decl)])

\* The same loop clearing the aliases at every typedef (visited never kept).
RECURSIVE bind_loop_clear_each(_, _, _)
bind_loop_clear_each(typedefs, tp, al) ==
    IF typedefs = <<>> THEN al
    ELSE LET decl == Head(typedefs)
             type_ == remove_alias(tp[decl], tp)
         IN  IF IsDeclarated(type_) /\ IsClassType(type_.declaration)
             THEN bind_loop_clear_each(Tail(typedefs), tp,
                      [al EXCEPT ![type_.declaration] = <<decl>>])
             ELSE bind_loop_clear_each(Tail(typedefs), tp, al)

bind_aliases_clear_each(decls, tp, al) ==
    bind_loop_clear_each(SelectSeq(decls, IsTypedef), tp, al)

\* The same loop never clearing (every class counts as visited already).
bind_aliases_no_clear(decls, tp, al) ==
    bind_loop(SelectSeq(decls, IsTypedef), tp, Classes, al)

\* The same loop run after clearing the aliases of every class of the list.
bind_aliases_clearing_listed(decls, tp, al) ==
    bind_loop(SelectSeq(decls, IsTypedef), tp, {},
              [c \in Classes |->
                  IF \E i \in 1..Len(decls) : decls[i] = c THEN <<>>
                  ELSE al[c]])

\* bind_aliases(decls): the aliases lists after the call, from those before.
bind_aliases(decls, tp, al) ==
    bind_loop(SelectSeq(decls, IsTypedef), tp, {}, al)

\* ------------------------------------------------- paths and file contents
\* A path is <<directory, name>>; the directory "." makes it relative.
WorkingDirectory == "/wd"
IncludePaths == <<"/inc">>
ProcessCwd == "/cwd"
TempDir == "/tmp"
NoPath == <<"", "">>

\* Temporary names tempfile.mkstemp can hand out, per suffix.
NumTemp == 2
HeaderNames == <<"h1.h", "h2.h", "h3.h", "h4.h">>
HeaderTemps == {<<TempDir, HeaderNames[i]>> : i \in 1..NumTemp}
XmlTemps == {<<TempDir, "x1.xml">>}

\* The names it hands out to two invocations that run at the same time.
ConcXmlTemps == {<<TempDir, "x1.xml">>, <<TempDir, "x2.xml">>}

SourceFile == <<WorkingDirectory, "a.h">>
XmlFiles == {<<WorkingDirectory, "good.xml">>, <<WorkingDirectory, "norns.xml">>,
             <<WorkingDirectory, "bad.xml">>}

\* Where a caller of create_xml_file asks for the dump to be written.
Destination == <<WorkingDirectory, "out.xml">>

\* The places a header named a.h can be at: the process's directory, the
\* working directory, an include path.
HeaderPlaces == {<<ProcessCwd, "a.h">>, SourceFile, <<"/inc", "a.h">>}

\* A dump whose file table names its header by a relative path.
RelativeDump == <<WorkingDirectory, "rel.xml">>

\* Every absolute path the file system can hold a file at.
Files == HeaderPlaces \cup XmlFiles \cup HeaderTemps \cup XmlTemps
            \cup ConcXmlTemps \cup {Destination, RelativeDump}

\* The paths a cache can be given as a key: those, and a relative path that
\* names a file of the process's directory.
Keys == Files \cup {<<".", f[2]>> : f \in {g \in Files : g[1] = ProcessCwd}}

\* os.path.isabs, os.path.join
isabs(path) == path[1] # "."
join(dir, path) == IF isabs(path) THEN path ELSE <<dir, path[2]>>

\* File contents: nothing there, an empty file, source text, a tool dump with
\* its file table.
Absent == [kind |-> "absent", body |-> "", files |-> <<>>]
Empty == [kind |-> "empty", body |-> "", files |-> <<>>]
Text(c) == [kind |-> "text", body |-> c, files |-> <<>>]
Dump(g, files) == [kind |-> "dump", body |-> g, files |-> files]

Sources == {"s1", "s2"}

\* os.path.isfile: a relative path is looked up in the process's directory.
isfile(path, fsys) ==
    /\ join(ProcessCwd, path) \in Files
    /\ fsys[join(ProcessCwd, path)].kind # "absent"

\* The content read from a path (Absent when there is no such file).
read(path, fsys) ==
    IF isfile(path, fsys) THEN fsys[join(ProcessCwd, path)] ELSE Absent

\* pygccxml.utils.remove_file_no_raise
remove_file_no_raise(path, fsys) ==
    IF join(ProcessCwd, path) \in Files
    THEN [fsys EXCEPT ![join(ProcessCwd, path)] = Absent]
    ELSE fsys

\* ------------------------------------------------------------- the dumps
\* What the scanner yields for each dump: the declarations table (in table
\* order), the types table, each type's raw record, each typedef's raw type id
\* and the membership table.
NoMembers == [d \in Namespaces \cup Decls |-> {}]

DumpTable(g) ==
    CASE g = "good" ->
           [decls |-> <<"::", "ns", "A", "T1", "T2", "E">>,
            types |-> <<"p1", "d1">>,
            rawtype |-> [t \in {"p1", "d1"} |->
                           IF t = "p1" THEN [kind |-> "pointer", ref |-> "d1"]
                           ELSE [kind |-> "declarated", ref |-> "A"]],
            tdraw |-> [t \in {"T1", "T2"} |-> IF t = "T1" THEN "A" ELSE "T1"],
            members |-> [NoMembers EXCEPT !["::"] = {"ns", "A", "T1"},
                                          !["ns"] = {"T2"}]]
      [] g = "norns" ->
           [decls |-> <<"E", "T1">>,
            types |-> <<>>,
            rawtype |-> [t \in {} |-> [kind |-> "", ref |-> ""]],
            tdraw |-> [t \in {"T1"} |-> "E"],
            members |-> NoMembers]
      [] g = "malformed" ->
           [decls |-> <<"::", "A", "T1">>,
            types |-> <<"p1", "d9">>,
            rawtype |-> [t \in {"p1", "d9"} |->
                           IF t = "p1" THEN [kind |-> "pointer", ref |-> "A"]
                           ELSE [kind |-> "declarated", ref |-> "_9"]],
            tdraw |-> [t \in {"T1"} |-> "A"],
            members |-> [NoMembers EXCEPT !["::"] = {"A", "T1"}]]

Range(seq) == {seq[i] : i \in 1..Len(seq)}

\* ----------------------------------------------------------------- linking
\* linker_t: whether every id a record refers to is in its table.
RECURSIVE resolvable(_, _)
resolvable(id, tab) ==
    \/ id \in Range(tab.decls)
    \/ /\ id \in Range(tab.types)
       /\ IF tab.rawtype[id].kind = "declarated"
          THEN tab.rawtype[id].ref \in Range(tab.decls)
          ELSE resolvable(tab.rawtype[id].ref, tab)

\* linker_t: the type object an id denotes.
RECURSIVE link_type(_, _)
link_type(id, tab) ==
    IF id \in Range(tab.decls) THEN Declarated(id)
    ELSE IF tab.rawtype[id].kind = "declarated"
         THEN Declarated(tab.rawtype[id].ref)
         ELSE Pointer(link_type(tab.rawtype[id].ref, tab))

\* The ids a visited record refers to.
refs_of_type(t, tab) == {tab.rawtype[t].ref}
refs_of_decl(d, tab) == IF IsTypedef(d) THEN {tab.tdraw[d]} ELSE {}

\* One visiting loop of __parse_xml_file: apply_visitor on each object of todo
\* in order; a record referring to an absent id raises and ends the pass.
\* Returns the log of visits and whether the pass completed.
RECURSIVE visit_all(_, _, _, _)
visit_all(todo, stage, tab, log) ==
    IF todo = <<>> THEN [ok |-> TRUE, log |-> log]
    ELSE LET inst == Head(todo)
             refs == IF stage = "type" THEN refs_of_type(inst, tab)
                     ELSE refs_of_decl(inst, tab)
             here == Append(log, <<stage, inst>>)
         IN  IF \A id \in refs : resolvable(id, tab)
             THEN visit_all(Tail(todo), stage, tab, here)
             ELSE [ok |-> FALSE, log |-> here]

\* The parent the declaration pass gives a declaration: the scope whose
\* membership holds it.
parent_of(d, tab) ==
    IF \E s \in Range(tab.decls) : d \in tab.members[s]
    THEN CHOOSE s \in Range(tab.decls) : d \in tab.members[s]
    ELSE NoDecl

\* ------------------------------------------------------- __parse_xml_file
\* What a read returns or stores: None, or a list of declaration objects
\* (each the declaration id within the graph built from one dump).
None == [isNone |-> TRUE, list |-> <<>>]
Value(list) == [isNone |-> FALSE, list |-> list]
Obj(g, id) == <<g, id>>

\* Python's "not declarations": None and the empty list are both false.
IsFalsy(declarations) == declarations.isNone \/ declarations.list = <<>>

\* __produce_full_file: an absolute path as it is; a relative one made
\* absolute against the working directory when that file exists, else as is.
produce_full_file(file_path, fsys) ==
    IF isabs(file_path) THEN file_path
    ELSE IF isfile(join(WorkingDirectory, file_path), fsys)
         THEN join(WorkingDirectory, file_path)
         ELSE file_path

\* The filter keeping every namespace without a parent, whatever else.
filter_roots_any_namespace(decls, tab) ==
    SelectSeq(decls, IsNamespace)

\* Lines 438-442: the namespaces of the table that have no parent.
filter_roots(decls, tab) ==
    SelectSeq(decls, LAMBDA inst : IsNamespace(inst)
                                      /\ parent_of(inst, tab) = NoDecl)

Stage(name) == <<name, "">>

ParseFailed(error, trace, g) ==
    [error |-> error, trace |-> trace, dump |-> g, declarations |-> None,
     files |-> <<>>, aliases |-> [c \in Classes |-> <<>>]]

\* __parse_xml_file with the patcher called before the declarations are
\* linked and bound.
parse_xml_file_patch_first(gccxml_file, fsys, patch_ok) ==
    LET content == read(gccxml_file, fsys)
        tab == DumpTable(content.body)
        vt == visit_all(tab.types, "type", tab, <<Stage("scan")>>)
        patched == Append(vt.log, Stage("patch"))
        vd == visit_all(tab.decls, "decl", tab, patched)
    IN  IF content.kind # "dump"
        THEN ParseFailed("Scan", <<Stage("scan")>>, "")
        ELSE IF ~vt.ok THEN ParseFailed("Link", vt.log, content.body)
        ELSE IF ~patch_ok THEN ParseFailed("Patch", patched, content.body)
        ELSE IF ~vd.ok THEN ParseFailed("Link", vd.log, content.body)
        ELSE [error |-> "",
              trace |-> vd.log \o <<Stage("bind"), Stage("filter")>>,
              dump |-> content.body,
              declarations |->
                  Value([i \in 1..Len(filter_roots(tab.decls, tab)) |->
                           Obj(content.body, filter_roots(tab.decls, tab)[i])]),
              files |-> [i \in 1..Len(content.files) |->
                           produce_full_file(content.files[i], fsys)],
              aliases |-> [c \in Classes |-> <<>>]]

\* __parse_xml_file(gccxml_file): scan, produce the file table, link every
\* type and then every declaration, bind the aliases, patch, filter.  An
\* exception of any stage ends it; patch_ok is whether the patcher returns.
parse_xml_file(gccxml_file, fsys, patch_ok) ==
    LET content == read(gccxml_file, fsys)
        tab == DumpTable(content.body)
        files == [i \in 1..Len(content.files) |->
                     produce_full_file(content.files[i], fsys)]
        vt == visit_all(tab.types, "type", tab, <<Stage("scan")>>)
        vd == visit_all(tab.decls, "decl", tab, vt.log)
        tp == [t \in DOMAIN tab.tdraw |-> link_type(tab.tdraw[t], tab)]
        bound == bind_aliases(tab.decls, tp, [c \in Classes |-> <<>>])
        roots == filter_roots(tab.decls, tab)
    IN  IF content.kind # "dump"
        THEN ParseFailed("Scan", <<Stage("scan")>>, "")
        ELSE IF ~vt.ok THEN ParseFailed("Link", vt.log, content.body)
        ELSE IF ~vd.ok THEN ParseFailed("Link", vd.log, content.body)
        ELSE IF ~patch_ok
        THEN ParseFailed("Patch", vd.log \o <<Stage("bind"), Stage("patch")>>,
                         content.body)
        ELSE [error |-> "",
              trace |-> vd.log \o <<Stage("bind"), Stage("patch"),
                                    Stage("filter")>>,
              dump |-> content.body,
              declarations |->
                  Value([i \in 1..Len(roots) |-> Obj(content.body, roots[i])]),
              files |-> files,
              aliases |-> bound]

\* ------------------------------------------------------------- the cache
\* The cache interface (declarations_cache): a stored entry is returned only
\* while every file of its file list reads as it did when it was stored; the
\* dummy cache never has a value and stores nothing.
NoEntry == [stored |-> FALSE, declarations |-> None, files |-> <<>>,
            sigs |-> <<>>]

entry_valid(entry, fsys) ==
    \A i \in 1..Len(entry.files) :
        /\ isfile(entry.files[i], fsys)
        /\ read(entry.files[i], fsys) = entry.sigs[i]

cached_value(key, c, fsys, real) ==
    IF real /\ key \in DOMAIN c /\ c[key].stored /\ entry_valid(c[key], fsys)
    THEN c[key].declarations
    ELSE None

\* A cache that stores whether or not it is the dummy cache.
update_by_dummy_too(key, declarations, files, c, fsys, real) ==
    IF key \in DOMAIN c
    THEN [c EXCEPT ![key] =
            [stored |-> TRUE, declarations |-> declarations, files |-> files,
             sigs |-> [i \in 1..Len(files) |-> read(files[i], fsys)]]]
    ELSE c

update(key, declarations, files, c, fsys, real) ==
    IF real /\ key \in DOMAIN c
    THEN [c EXCEPT ![key] =
            [stored |-> TRUE, declarations |-> declarations, files |-> files,
             sigs |-> [i \in 1..Len(files) |-> read(files[i], fsys)]]]
    ELSE c

\* ------------------------------------------------------ __file_full_name
\* Lines 88-91: the working directory first, then the include paths.
search_directories == <<WorkingDirectory>> \o IncludePaths

RECURSIVE search(_, _, _)
search(file, dirs, fsys) ==
    IF dirs = <<>> THEN [found |-> FALSE, path |-> NoPath]
    ELSE IF isfile(join(Head(dirs), file), fsys)
         THEN [found |-> TRUE, path |-> join(Head(dirs), file)]
         ELSE search(file, Tail(dirs), fsys)

\* __file_full_name returning the path as given when no directory has it.
file_full_name_no_raise(file, fsys) ==
    IF search(file, search_directories, fsys).found
    THEN search(file, search_directories, fsys)
    ELSE [found |-> TRUE, path |-> file]

\* __file_full_name: the file as given when it is one, else the first search
\* directory holding it; found = FALSE stands for the RuntimeError.
file_full_name(file, fsys) ==
    IF isfile(file, fsys) THEN [found |-> TRUE, path |-> file]
    ELSE search(file, search_directories, fsys)

\* ------------------------------------------------------------------- state
VARIABLES
    tdtype,     \* typedef -> its type object (decl.type)
    aliases,    \* class -> its aliases list (cls_inst.aliases)
    lastDecls,  \* the list given to the latest bind_aliases call
    ran,        \* whether bind_aliases has been called
    before,     \* the aliases lists as they were before the latest call
    repeated,   \* the latest call got the same list as the call before it
    fs,         \* the file system: absolute path -> content
    cache,      \* self.__dcache: key (resolved path) -> entry
    useCache,   \* a cache was given to __init__ (else dummy_cache_t)
    ignore_gccxml_output,   \* self.__config.ignore_gccxml_output
    rd          \* reader -> the locals and position of its current read

bindVars == <<tdtype, aliases, lastDecls, ran, before, repeated>>

readVars == <<fs, cache, useCache, ignore_gccxml_output, rd>>

vars == <<tdtype, aliases, lastDecls, ran, before, repeated,
          fs, cache, useCache, ignore_gccxml_output, rd>>

Readers == {"r1"}

\* ------------------------------------------------------ the source reader

\* No tool has run.
NoTool == [exit |-> 0, msg |-> FALSE, out |-> "none"]

\* A reader between calls, before its first read.
IdleReader ==
    [pc |-> "idle", op |-> "none", source_file |-> NoPath, content |-> "",
     header_file |-> NoPath, ffname |-> NoPath, gccxml_file |-> NoPath,
     declarations |-> None, files |-> <<>>, returned |-> None, error |-> "",
     lookup |-> None, lookups |-> 0, toolCalls |-> 0, updates |-> 0,
     trace |-> <<>>, created |-> {}, cacheBefore |-> [k \in Keys |-> NoEntry],
     dump |-> "", again |-> FALSE,
     destination |-> NoPath, tool |-> NoTool, replaced |-> FALSE,
     bound |-> [c \in Classes |-> <<>>]]

\* The file system a reader is constructed in, and an empty cache.
FilesAtRest ==
    [f \in Files |->
        CASE f = SourceFile -> Text("s1")
          [] f = <<WorkingDirectory, "good.xml">> -> Dump("good", <<SourceFile>>)
          [] f = <<WorkingDirectory, "norns.xml">> -> Dump("norns", <<SourceFile>>)
          [] f = <<WorkingDirectory, "bad.xml">> ->
                 Dump("malformed", <<SourceFile>>)
          [] OTHER -> Absent]

ReadersAtRest ==
    /\ fs = FilesAtRest
    /\ cache = [k \in Keys |-> NoEntry]
    /\ useCache = FALSE
    /\ ignore_gccxml_output = FALSE
    /\ rd = [r \in Readers |-> IdleReader]

BetweenCalls(r) == rd[r].pc \in {"idle", "done"}

\* Whether a call starting now repeats the call just finished, which
\* returned: a read_string of the very same content, or a read_file of the
\* very same path.
Again(r, op, source_file, content) ==
    /\ rd[r].pc = "done" /\ rd[r].op = op /\ rd[r].error = ""
    /\ \/ op = "string" /\ rd[r].content = content
       \/ op = "file" /\ rd[r].source_file = source_file

Begin(r, op, source_file, content) ==
    [IdleReader EXCEPT !.pc = "resolve", !.op = op,
                       !.source_file = source_file, !.content = content,
                       !.cacheBefore = cache,
                       !.again = Again(r, op, source_file, content)]

\* An exception leaves read_xml_file at once; read_gccxml_file and
\* read_string catch it, clean up and raise it again.
Raise(r, error) == IF rd[r].op = "xml" THEN "done" ELSE "unwind"

\* read_file(source_file), lines 301-312
StartFile(r, source_file) ==
    /\ BetweenCalls(r)
    /\ rd' = [rd EXCEPT ![r] = Begin(r, "file", source_file, "")]
    /\ UNCHANGED <<fs, cache, useCache, ignore_gccxml_output, bindVars>>

\* read_xml_file(gccxml_created_file), lines 341-351
StartXml(r, gccxml_created_file) ==
    /\ BetweenCalls(r)
    /\ rd' = [rd EXCEPT ![r] = Begin(r, "xml", gccxml_created_file, "")]
    /\ UNCHANGED <<fs, cache, useCache, ignore_gccxml_output, bindVars>>

\* read_string(content), line 371: create_temp_file_name makes a new, empty
\* file under a name no file has.
StartString(r, content, header_file) ==
    /\ BetweenCalls(r)
    /\ ~isfile(header_file, fs)
    /\ fs' = [fs EXCEPT ![header_file] = Empty]
    /\ rd' = [rd EXCEPT ![r] =
                [Begin(r, "string", header_file, content) EXCEPT
                    !.pc = "write_header", !.header_file = header_file,
                    !.created = {header_file}]]
    /\ UNCHANGED <<cache, useCache, ignore_gccxml_output, bindVars>>

\* read_string, lines 372-377: open, write and close the header, outside any
\* try; written = FALSE is an IOError of one of them.
WriteHeader(r, written) ==
    /\ rd[r].pc = "write_header"
    /\ IF written
       THEN /\ fs' = [fs EXCEPT ![rd[r].header_file] = Text(rd[r].content)]
            /\ rd' = [rd EXCEPT ![r].pc = "resolve"]
       ELSE /\ fs' = fs
            /\ rd' = [rd EXCEPT ![r].pc = "done", ![r].error = "Write"]
    /\ UNCHANGED <<cache, useCache, ignore_gccxml_output, bindVars>>

\* Lines 315 and 353: ffname = self.__file_full_name(source_file)
Resolve(r) ==
    /\ rd[r].pc = "resolve"
    /\ LET full == file_full_name(rd[r].source_file, fs)
       IN  rd' = [rd EXCEPT ![r] =
                    IF full.found
                    THEN [@ EXCEPT !.pc = "lookup", !.ffname = full.path]
                    ELSE [@ EXCEPT !.pc = Raise(r, "NotFound"),
                                   !.error = "NotFound"]]
    /\ UNCHANGED <<fs, cache, useCache, ignore_gccxml_output, bindVars>>

\* Lines 317-318 and 355-356: the cache lookup and the test of its result.
Lookup(r) ==
    /\ rd[r].pc = "lookup"
    /\ LET declarations == cached_value(rd[r].ffname, cache, fs, useCache)
       IN  rd' = [rd EXCEPT ![r] =
                    [@ EXCEPT !.declarations = declarations,
                              !.lookup = declarations,
                              !.lookups = @ + 1,
                              !.pc = IF ~IsFalsy(declarations) THEN "return"
                                     ELSE IF rd[r].op = "xml" THEN "parse"
                                     ELSE "create_xml"]]
    /\ UNCHANGED <<fs, cache, useCache, ignore_gccxml_output, bindVars>>

\* What the external tool can leave at its output path: nothing written, the
\* file removed, or a dump.
ToolDumps == {"good", "malformed"}
ToolOutputs == {"nothing", "removed"} \cup ToolDumps
ToolOutcomes == [exit : {0, 1}, msg : BOOLEAN, out : ToolOutputs]

run_tool(ffname, gccxml_file, fsys, tool) ==
    CASE tool.out = "nothing" -> fsys
      [] tool.out = "removed" -> remove_file_no_raise(gccxml_file, fsys)
      [] OTHER -> [fsys EXCEPT ![gccxml_file] = Dump(tool.out, <<ffname>>)]

\* create_xml_file not looking for the output file when the tool's output
\* is ignored.
create_xml_file_output_unchecked(header, destination, temp, fsys, ignore, tool) ==
    LET gccxml_file == IF destination # NoPath THEN destination ELSE temp
        fs1 == IF destination # NoPath
               THEN remove_file_no_raise(gccxml_file, fsys)
               ELSE [fsys EXCEPT ![temp] = Empty]
        full == IF isabs(header) THEN [found |-> TRUE, path |-> header]
                ELSE file_full_name(header, fs1)
        fs2 == run_tool(full.path, gccxml_file, fs1, tool)
        fails == IF ignore
                 THEN FALSE
                 ELSE tool.msg \/ tool.exit # 0 \/ ~isfile(gccxml_file, fs2)
    IN  IF ~full.found
        THEN [raised |-> TRUE, error |-> "NotFound", path |-> NoPath,
              invoked |-> FALSE, fs |-> remove_file_no_raise(gccxml_file, fs1)]
        ELSE IF fails
        THEN [raised |-> TRUE, error |-> "Tool", path |-> NoPath,
              invoked |-> TRUE, fs |-> remove_file_no_raise(gccxml_file, fs2)]
        ELSE [raised |-> FALSE, error |-> "", path |-> gccxml_file,
              invoked |-> TRUE, fs |-> fs2]

\* create_xml_file leaving a file already at the destination where it is.
create_xml_file_keeping_destination(header, destination, temp, fsys, ignore, tool) ==
    LET gccxml_file == IF destination # NoPath THEN destination ELSE temp
        fs1 == IF destination # NoPath
               THEN fsys
               ELSE [fsys EXCEPT ![temp] = Empty]
        full == IF isabs(header) THEN [found |-> TRUE, path |-> header]
                ELSE file_full_name(header, fs1)
        fs2 == run_tool(full.path, gccxml_file, fs1, tool)
        fails == IF ignore
                 THEN ~isfile(gccxml_file, fs2)
                 ELSE tool.msg \/ tool.exit # 0 \/ ~isfile(gccxml_file, fs2)
    IN  IF ~full.found
        THEN [raised |-> TRUE, error |-> "NotFound", path |-> NoPath,
              invoked |-> FALSE, fs |-> remove_file_no_raise(gccxml_file, fs1)]
        ELSE IF fails
        THEN [raised |-> TRUE, error |-> "Tool", path |-> NoPath,
              invoked |-> TRUE, fs |-> remove_file_no_raise(gccxml_file, fs2)]
        ELSE [raised |-> FALSE, error |-> "", path |-> gccxml_file,
              invoked |-> TRUE, fs |-> fs2]

\* create_xml_file(header, destination), lines 232-276.  temp is the name
\* create_temp_file_name hands out (a new empty file) when no destination is
\* given; tool is what the external process does.  Returns whether it raised,
\* the path it returns and the file system it leaves.
create_xml_file(header, destination, temp, fsys, ignore, tool) ==
    LET gccxml_file == IF destination # NoPath THEN destination ELSE temp
        fs1 == IF destination # NoPath
               THEN remove_file_no_raise(gccxml_file, fsys)
               ELSE [fsys EXCEPT ![temp] = Empty]
        full == IF isabs(header) THEN [found |-> TRUE, path |-> header]
                ELSE file_full_name(header, fs1)
        fs2 == run_tool(full.path, gccxml_file, fs1, tool)
        fails == IF ignore
                 THEN ~isfile(gccxml_file, fs2)
                 ELSE tool.msg \/ tool.exit # 0 \/ ~isfile(gccxml_file, fs2)
    IN  IF ~full.found
        THEN [raised |-> TRUE, error |-> "NotFound", path |-> NoPath,
              invoked |-> FALSE, fs |-> remove_file_no_raise(gccxml_file, fs1)]
        ELSE IF fails
        THEN [raised |-> TRUE, error |-> "Tool", path |-> NoPath,
              invoked |-> TRUE, fs |-> remove_file_no_raise(gccxml_file, fs2)]
        ELSE [raised |-> FALSE, error |-> "", path |-> gccxml_file,
              invoked |-> TRUE, fs |-> fs2]

\* Line 321: gccxml_file = self.create_xml_file(ffname)
CreateXml(r, temp, tool) ==
    /\ rd[r].pc = "create_xml"
    /\ ~isfile(temp, fs)
    /\ LET made == create_xml_file(rd[r].ffname, NoPath, temp, fs,
                                   ignore_gccxml_output, tool)
       IN  /\ fs' = made.fs
           /\ rd' = [rd EXCEPT ![r] =
                       [@ EXCEPT !.pc = IF made.raised THEN Raise(r, made.error)
                                        ELSE "parse",
                                 !.error = made.error,
                                 !.gccxml_file = made.path,
                                 !.created = @ \cup {temp},
                                 !.toolCalls = @ + (IF made.invoked THEN 1 ELSE 0),
                                 !.trace = IF made.invoked
                                           THEN Append(@, Stage("invoke"))
                                           ELSE @]]
    /\ UNCHANGED <<cache, useCache, ignore_gccxml_output, bindVars>>

\* Lines 322-323 and 358: declarations, files = self.__parse_xml_file(...)
Parse(r, patch_ok) ==
    /\ rd[r].pc = "parse"
    /\ LET parsed == parse_xml_file(IF rd[r].op = "xml" THEN rd[r].ffname
                                    ELSE rd[r].gccxml_file, fs, patch_ok)
       IN  rd' = [rd EXCEPT ![r] =
                    [@ EXCEPT !.trace = @ \o parsed.trace,
                              !.dump = parsed.dump,
                              !.error = parsed.error,
                              !.declarations = IF parsed.error = ""
                                               THEN parsed.declarations ELSE @,
                              !.files = parsed.files,
                              !.bound = parsed.aliases,
                              !.pc = IF parsed.error = "" THEN "update"
                                     ELSE Raise(r, parsed.error)]]
    /\ UNCHANGED <<fs, cache, useCache, ignore_gccxml_output, bindVars>>

\* Lines 324-328: self.__dcache.update(ffname, config, declarations, files);
\* line 359: read_xml_file passes [] as the files.
Update(r) ==
    /\ rd[r].pc = "update"
    /\ cache' = update(rd[r].ffname, rd[r].declarations,
                       IF rd[r].op = "xml" THEN <<>> ELSE rd[r].files,
                       cache, fs, useCache)
    /\ rd' = [rd EXCEPT ![r] =
                [@ EXCEPT !.updates = @ + 1,
                          !.trace = Append(@, Stage("update")),
                          !.pc = "return"]]
    /\ UNCHANGED <<fs, useCache, ignore_gccxml_output, bindVars>>

\* The handlers removing the file that was parsed, whoever made it.
Cleanup_removing_dump(r, fsys) ==
    LET parsed == IF rd[r].op = "xml" THEN rd[r].ffname ELSE rd[r].gccxml_file
        fs1 == IF parsed # NoPath THEN remove_file_no_raise(parsed, fsys)
               ELSE fsys
    IN  IF rd[r].op = "string"
        THEN remove_file_no_raise(rd[r].header_file, fs1)
        ELSE fs1

\* The handlers removing every temporary dump there is.
Cleanup_every_dump(r, fsys) ==
    [f \in Files |-> IF f \in ConcXmlTemps THEN Absent ELSE fsys[f]]

\* The files the handlers of a read remove: the tool's output when
\* gccxml_file is set (lines 334-338), the header of read_string (379, 381).
Cleanup(r, fsys) ==
    LET fs1 == IF rd[r].op # "xml" /\ rd[r].gccxml_file # NoPath
               THEN remove_file_no_raise(rd[r].gccxml_file, fsys)
               ELSE fsys
    IN  IF rd[r].op = "string"
        THEN remove_file_no_raise(rd[r].header_file, fs1)
        ELSE fs1

\* The except blocks with an update of the cache added to them.
Unwind_updating(r) ==
    /\ rd[r].pc = "unwind"
    /\ fs' = Cleanup(r, fs)
    /\ cache' = update(rd[r].ffname, rd[r].declarations, <<>>, cache, fs,
                       useCache)
    /\ rd' = [rd EXCEPT ![r].pc = "done"]
    /\ UNCHANGED <<useCache, ignore_gccxml_output, bindVars>>

\* Lines 333-336 and 378-380: the exception passes through the except blocks.
Unwind(r) ==
    /\ rd[r].pc = "unwind"
    /\ fs' = Cleanup(r, fs)
    /\ rd' = [rd EXCEPT ![r].pc = "done"]
    /\ UNCHANGED <<cache, useCache, ignore_gccxml_output, bindVars>>

\* Lines 337-339, 364, 381-382: clean up and return declarations.
Return(r) ==
    /\ rd[r].pc = "return"
    /\ fs' = Cleanup(r, fs)
    /\ rd' = [rd EXCEPT ![r].pc = "done",
                        ![r].returned = rd[r].declarations]
    /\ UNCHANGED <<cache, useCache, ignore_gccxml_output, bindVars>>

\* The paths callers ask for: relative to a search directory, or nowhere.
ReadFileArgs == {<<".", "a.h">>, <<".", "nowhere.h">>}
ReadXmlArgs == {<<".", "good.xml">>, <<".", "norns.xml">>, <<".", "bad.xml">>,
                <<".", "nowhere.xml">>}

BindAtRest ==
    /\ tdtype = [td \in Typedefs |-> Fundamental]
    /\ aliases = [c \in Classes |-> <<>>]
    /\ lastDecls = <<>>
    /\ ran = FALSE
    /\ before = [c \in Classes |-> <<>>]
    /\ repeated = FALSE

\* A reader as __init__ leaves it, with or without a cache, with either
\* setting of ignore_gccxml_output.
InitRead ==
    /\ fs = FilesAtRest
    /\ cache = [k \in Keys |-> NoEntry]
    /\ useCache \in BOOLEAN
    /\ ignore_gccxml_output \in BOOLEAN
    /\ rd = [r \in Readers |-> IdleReader]
    /\ BindAtRest

NextRead ==
    \/ \E r \in DOMAIN rd, source_file \in ReadFileArgs : StartFile(r, source_file)
    \/ \E r \in DOMAIN rd, file \in ReadXmlArgs : StartXml(r, file)
    \/ \E r \in DOMAIN rd, content \in Sources, header_file \in HeaderTemps :
          StartString(r, content, header_file)
    \/ \E r \in DOMAIN rd, written \in BOOLEAN : WriteHeader(r, written)
    \/ \E r \in DOMAIN rd : Resolve(r)
    \/ \E r \in DOMAIN rd : Lookup(r)
    \/ \E r \in DOMAIN rd, temp \in XmlTemps, tool \in ToolOutcomes :
          CreateXml(r, temp, tool)
    \/ \E r \in DOMAIN rd, patch_ok \in BOOLEAN : Parse(r, patch_ok)
    \/ \E r \in DOMAIN rd : Update(r)
    \/ \E r \in DOMAIN rd : Unwind(r)
    \/ \E r \in DOMAIN rd : Return(r)

SpecRead == InitRead /\ [][NextRead]_vars

\* ------------------------------------------------- where the header is
\* The file system with a.h at the places of P and the dump that names a.h
\* by a relative path.
PathsFiles(P) ==
    [f \in Files |->
        IF f \in HeaderPlaces
        THEN IF f \in P THEN Text("s1") ELSE Absent
        ELSE IF f = RelativeDump THEN Dump("good", << <<".", "a.h">> >>)
        ELSE FilesAtRest[f]]

\* A reader with a cache, constructed where a.h is at any of its places.
InitPaths ==
    /\ fs \in {PathsFiles(P) : P \in SUBSET HeaderPlaces}
    /\ cache = [k \in Keys |-> NoEntry]
    /\ useCache = TRUE
    /\ ignore_gccxml_output = FALSE
    /\ rd = [r \in Readers |-> IdleReader]
    /\ BindAtRest

NextPaths ==
    \/ \E r \in DOMAIN rd : StartFile(r, <<".", "a.h">>)
    \/ \E r \in DOMAIN rd : StartXml(r, <<".", "rel.xml">>)
    \/ \E r \in DOMAIN rd : Resolve(r)
    \/ \E r \in DOMAIN rd : Lookup(r)
    \/ \E r \in DOMAIN rd, temp \in XmlTemps, tool \in ToolOutcomes :
          CreateXml(r, temp, tool)
    \/ \E r \in DOMAIN rd, patch_ok \in BOOLEAN : Parse(r, patch_ok)
    \/ \E r \in DOMAIN rd : Update(r)
    \/ \E r \in DOMAIN rd : Unwind(r)
    \/ \E r \in DOMAIN rd : Return(r)

SpecPaths == InitPaths /\ [][NextPaths]_vars

\* ------------------------------------------ two invocations at a time
ConcReaders == {"r1", "r2"}

\* What the tool does in these runs: any of its outcomes, and a second
\* well-formed dump so that two runs can differ in what they yield.
ConcTools == ToolOutcomes \cup {[exit |-> 0, msg |-> FALSE, out |-> "norns"]}

\* A reader with a cache, with two invocations of read_file under way.
InitConc ==
    /\ fs = FilesAtRest
    /\ cache = [k \in Keys |-> NoEntry]
    /\ useCache = TRUE
    /\ ignore_gccxml_output = FALSE
    /\ rd = [r \in ConcReaders |-> IdleReader]
    /\ BindAtRest

NextConc ==
    \/ \E r \in DOMAIN rd : StartFile(r, <<".", "a.h">>)
    \/ \E r \in DOMAIN rd : Resolve(r)
    \/ \E r \in DOMAIN rd : Lookup(r)
    \/ \E r \in DOMAIN rd, temp \in ConcXmlTemps, tool \in ConcTools :
          CreateXml(r, temp, tool)
    \/ \E r \in DOMAIN rd : Parse(r, TRUE)
    \/ \E r \in DOMAIN rd : Update(r)
    \/ \E r \in DOMAIN rd : Unwind(r)
    \/ \E r \in DOMAIN rd : Return(r)

SpecConc == InitConc /\ [][NextConc]_vars

\* ------------------------------------- create_xml_file called by a caller
\* The headers and destinations callers of create_xml_file pass.
HeaderArgs == {<<".", "a.h">>, SourceFile, <<".", "nowhere.h">>}
DestinationArgs == {NoPath, Destination}

\* The record of a finished create_xml_file or create_xml_file_from_string
\* call: its arguments, what the tool did, what the call raised or returned.
Called(op, header, destination, tool, made, created, replaced) ==
    [IdleReader EXCEPT !.pc = "done", !.op = op, !.source_file = header,
                       !.destination = destination,
                       !.tool = IF made.invoked THEN tool ELSE NoTool,
                       !.error = made.error, !.gccxml_file = made.path,
                       !.toolCalls = IF made.invoked THEN 1 ELSE 0,
                       !.created = created, !.replaced = replaced]

\* create_xml_file(header, destination), lines 217-276, called directly.
CallCreateXml(r, header, destination, temp, tool) ==
    /\ BetweenCalls(r)
    /\ ~isfile(temp, fs)
    /\ LET made == create_xml_file(header, destination, temp, fs,
                                   ignore_gccxml_output, tool)
       IN  /\ fs' = made.fs
           /\ rd' = [rd EXCEPT ![r] =
                       Called("create_xml_file", header, destination, tool,
                              made,
                              IF destination = NoPath THEN {temp} ELSE {},
                              destination # NoPath /\ isfile(destination, fs))]
    /\ UNCHANGED <<cache, useCache, ignore_gccxml_output, bindVars>>

\* create_xml_file_from_string(content, destination), lines 278-299: the
\* header is written inside the try, the finally removes it.
CallCreateXmlFromString(r, content, header_file, written, destination, temp, tool) ==
    /\ BetweenCalls(r)
    /\ ~isfile(header_file, fs)
    /\ ~isfile(temp, fs)
    /\ IF written
       THEN LET fs1 == [fs EXCEPT ![header_file] = Text(content)]
                made == create_xml_file(header_file, destination, temp, fs1,
                                        ignore_gccxml_output, tool)
            IN  /\ fs' = remove_file_no_raise(header_file, made.fs)
                /\ rd' = [rd EXCEPT ![r] =
                            [Called("create_xml_file_from_string", header_file,
                                    destination, tool, made,
                                    {header_file} \cup
                                      (IF destination = NoPath THEN {temp}
                                       ELSE {}),
                                    destination # NoPath
                                      /\ isfile(destination, fs))
                                EXCEPT !.content = content,
                                       !.header_file = header_file]]
       ELSE /\ fs' = remove_file_no_raise(header_file,
                                          [fs EXCEPT ![header_file] = Empty])
            /\ rd' = [rd EXCEPT ![r] =
                        [IdleReader EXCEPT
                            !.pc = "done",
                            !.op = "create_xml_file_from_string",
                            !.content = content, !.header_file = header_file,
                            !.source_file = header_file,
                            !.destination = destination, !.error = "Write",
                            !.created = {header_file}]]
    /\ UNCHANGED <<cache, useCache, ignore_gccxml_output, bindVars>>

\* The caller is done with a dump it was given the path of and removes it.
CallerRemoves(r) ==
    /\ rd[r].pc = "done" /\ rd[r].gccxml_file # NoPath
    /\ isfile(rd[r].gccxml_file, fs)
    /\ fs' = remove_file_no_raise(rd[r].gccxml_file, fs)
    /\ rd' = [rd EXCEPT ![r] = IdleReader]
    /\ UNCHANGED <<cache, useCache, ignore_gccxml_output, bindVars>>

\* A reader as __init__ leaves it, with either setting of
\* ignore_gccxml_output; its callers only create dumps.
InitTool ==
    /\ fs = FilesAtRest
    /\ cache = [k \in Keys |-> NoEntry]
    /\ useCache = FALSE
    /\ ignore_gccxml_output \in BOOLEAN
    /\ rd = [r \in Readers |-> IdleReader]
    /\ BindAtRest

NextTool ==
    \/ \E r \in DOMAIN rd, header \in HeaderArgs,
          destination \in DestinationArgs, temp \in XmlTemps,
          tool \in ToolOutcomes :
          CallCreateXml(r, header, destination, temp, tool)
    \/ \E r \in DOMAIN rd, content \in Sources, header_file \in HeaderTemps,
          written \in BOOLEAN, destination \in DestinationArgs,
          temp \in XmlTemps, tool \in ToolOutcomes :
          CallCreateXmlFromString(r, content, header_file, written,
                                  destination, temp, tool)
    \/ \E r \in DOMAIN rd : CallerRemoves(r)

SpecTool == InitTool /\ [][NextTool]_vars

\* The types a typedef can have: a typedef can name only an earlier typedef.
TypesOf(td) ==
    {Fundamental, Pointer(Declarated("A"))}
        \cup {Declarated(d) : d \in Classes \cup Enums}
        \cup (IF td = "T2" THEN {Declarated("T1")} ELSE {})

\* Sequences over S of length at most n.
SeqsUpTo(S, n) == UNION {[1..k -> S] : k \in 0..n}

\* A linked declaration graph whose classes have no alias recorded yet.
InitBind ==
    /\ tdtype \in {f \in [Typedefs -> UNION {TypesOf(td) : td \in Typedefs}] :
                      \A td \in Typedefs : f[td] \in TypesOf(td)}
    /\ aliases = [c \in Classes |-> <<>>]
    /\ lastDecls = <<>>
    /\ ran = FALSE
    /\ before = [c \in Classes |-> <<>>]
    /\ repeated = FALSE
    /\ ReadersAtRest

\* A caller runs bind_aliases(decls) on a list of declarations of the graph.
BindAliases(decls) ==
    /\ aliases' = bind_aliases(decls, tdtype, aliases)
    /\ lastDecls' = decls
    /\ ran' = TRUE
    /\ before' = aliases
    /\ repeated' = (ran /\ decls = lastDecls)
    /\ UNCHANGED <<tdtype, readVars>>

NextBind == \E decls \in SeqsUpTo(Listed, MaxDecls) : BindAliases(decls)

SpecBind == InitBind /\ [][NextBind]_vars

\* ---------------------------------------------------------------- claims
\* The typedefs of a list that resolve to class D, in list order.
ResolvesTo(td, D) ==
    LET type_ == remove_alias(tdtype[td], tdtype)
    IN  IsDeclarated(type_) /\ type_.declaration = D

TypedefsOf(decls, D) ==
    SelectSeq(decls, LAMBDA d : IsTypedef(d) /\ ResolvesTo(d, D))

\* C1: after bind_aliases(decls), every class D that at least one typedef of
\* decls resolves to has exactly those typedefs as its aliases, in list
\* order, whatever its aliases held before the call.
C1_AliasesExact ==
    ran => \A D \in Classes :
              TypedefsOf(lastDecls, D) # <<>>
                  => aliases[D] = TypedefsOf(lastDecls, D)

\* C1 witness: a second or later run has rebuilt a list of two aliases of a
\* class, one of them through an intermediate typedef.
C1_Witness ==
    /\ ran
    /\ tdtype["T2"] = Declarated("T1")
    /\ lastDecls = <<"T2", "T1">>
    /\ before["A"] = <<"T1">>
    /\ aliases["A"] = <<"T2", "T1">>

\* C2: bind_aliases is idempotent: a call on the same list as the call before
\* it leaves every class with the aliases list the first call gave it (same
\* elements, same order, nothing added twice).
C2_Idempotent ==
    repeated => \A D \in Classes : aliases[D] = before[D]

\* C2 witness: the same list was bound twice in a row and a class holds two
\* aliases after it.
C2_Witness ==
    /\ repeated
    /\ lastDecls = <<"T1", "T2">>
    /\ aliases["A"] = <<"T1", "T2">>

\* A class takes part in a run when it is in the list or a typedef of the
\* list resolves to it.
InList(d, decls) == \E i \in 1..Len(decls) : decls[i] = d

TakesPart(D, decls) == InList(D, decls) \/ TypedefsOf(decls, D) # <<>>

\* C3 (as claimed): after any sequence of runs, the aliases of every class
\* taking part in the latest run hold only typedefs of the latest list that
\* resolve to that class.
C3_OnlyLatestRun ==
    ran => \A D \in Classes :
              TakesPart(D, lastDecls)
                  => \A i \in 1..Len(aliases[D]) :
                        /\ InList(aliases[D][i], lastDecls)
                        /\ ResolvesTo(aliases[D][i], D)

\* C18: bind_aliases changes the aliases of no class but those that a typedef
\* of the list resolves to: a typedef whose type without aliases is not a
\* declarated type, or names a declaration that is not class-like, and a
\* class that is merely in the list, leave every aliases list as it was.
C18_OnlyTargetsChange ==
    ran => \A D \in Classes :
              TypedefsOf(lastDecls, D) = <<>> => aliases[D] = before[D]

\* C18 witness: a run on a typedef of an enum and on a class that had an
\* alias from an earlier run has left that alias where it was.
C18_Witness ==
    /\ ran
    /\ lastDecls = <<"T1", "B">>
    /\ tdtype["T1"] = Declarated("E")
    /\ before["B"] = <<"T2">>
    /\ aliases["B"] = <<"T2">>

\* ------------------------------------------------- claims about the reader
Done(r) == rd[r].pc = "done"

\* The call missed the cache: it looked up and got nothing it takes as a value.
Missed(r) == rd[r].lookups = 1 /\ IsFalsy(rd[r].lookup)

\* C4 (as claimed): with a real cache, a read_string call that directly
\* follows a read_string call of the same content (which returned) is served
\* from the cache: it never invokes the external tool.
C4_SecondStringFromCache ==
    \A r \in DOMAIN rd :
        (useCache /\ rd[r].op = "string" /\ rd[r].again)
            => rd[r].toolCalls = 0

\* C5 (as claimed): when a read has finished, on whatever exit path, none of
\* the temporary files it created exists any more.
C5_TempFilesRemoved ==
    \A r \in DOMAIN rd :
        Done(r) => \A f \in rd[r].created : ~isfile(f, fs)

\* C6: a read in which scanning, linking or patching raised ends with that
\* error, returns nothing, has made no cache update, and leaves the cache as
\* it was when the read began.
ParseErrors == {"Scan", "Link", "Patch"}

C6_FailedParseNotCached ==
    \A r \in DOMAIN rd :
        (Done(r) /\ rd[r].error \in ParseErrors)
            => /\ rd[r].returned = None
               /\ rd[r].updates = 0
               /\ cache = rd[r].cacheBefore

\* C6 witness: a read_file whose dump was malformed has ended with the link
\* error while the cache already held an entry.
C6_Witness ==
    \E r \in DOMAIN rd :
        /\ Done(r) /\ rd[r].op = "file" /\ rd[r].error = "Link"
        /\ useCache
        /\ \E k \in Files : cache[k].stored

\* A path some search step finds: as given, or under a search directory.
Resolvable(file) ==
    \/ isfile(file, fs)
    \/ \E i \in 1..Len(search_directories) :
          isfile(join(search_directories[i], file), fs)

\* C7: a read_file of a path that is no file as given and in no search
\* directory ends with the not-found error and returns nothing, and at no
\* point of it is the tool invoked, the cache looked up or the cache updated.
C7_NotFoundBeforeAnything ==
    \A r \in DOMAIN rd :
        (rd[r].op = "file" /\ ~Resolvable(rd[r].source_file))
            => /\ rd[r].toolCalls = 0
               /\ rd[r].lookups = 0
               /\ rd[r].updates = 0
               /\ cache = rd[r].cacheBefore
               /\ rd[r].pc \in {"resolve", "unwind", "done"}
               /\ Done(r) => rd[r].error = "NotFound" /\ rd[r].returned = None

\* C7 witness: read_file of a path that is nowhere has ended with the
\* not-found error, with a cache that holds an entry.
C7_Witness ==
    \E r \in DOMAIN rd :
        /\ Done(r) /\ rd[r].op = "file" /\ rd[r].error = "NotFound"
        /\ rd[r].source_file = <<".", "nowhere.h">>
        /\ useCache
        /\ \E k \in Files : cache[k].stored

\* C8 (as claimed): whenever the lookup returned a stored value, whatever the
\* value, the read goes straight to its end: no tool invocation, no scanning
\* or linking, no cache update, and it returns that value.
C8_HitShortCircuits ==
    \A r \in DOMAIN rd :
        (rd[r].lookups = 1 /\ ~rd[r].lookup.isNone)
            => /\ rd[r].toolCalls = 0
               /\ rd[r].updates = 0
               /\ rd[r].trace = <<>>
               /\ Done(r) => rd[r].returned = rd[r].lookup

\* The stages of a read that misses the cache and succeeds, from the tables
\* of the dump it parsed: every type, then every declaration, each once.
Visits(stage, ids) == [i \in 1..Len(ids) |-> <<stage, ids[i]>>]

ExpectedStages(g) ==
    <<Stage("invoke"), Stage("scan")>>
        \o Visits("type", DumpTable(g).types)
        \o Visits("decl", DumpTable(g).decls)
        \o <<Stage("bind"), Stage("patch"), Stage("filter"), Stage("update")>>

IsPrefix(a, b) == Len(a) <= Len(b) /\ a = SubSeq(b, 1, Len(a))

\* C9: a read of a source file or string that misses the cache and succeeds
\* has performed, in this order and each once: the tool invocation, the scan,
\* the visit of every type, the visit of every declaration, alias binding,
\* patching, filtering and the cache update; until then its stages so far are
\* a beginning of that order.
C9_StageOrder ==
    \A r \in DOMAIN rd :
        (rd[r].op \in {"file", "string"} /\ Missed(r) /\ rd[r].error = "")
            => /\ rd[r].dump # "" =>
                    IsPrefix(rd[r].trace, ExpectedStages(rd[r].dump))
               /\ rd[r].dump = "" =>
                    IsPrefix(rd[r].trace, <<Stage("invoke")>>)
               /\ Done(r) => /\ rd[r].trace = ExpectedStages(rd[r].dump)
                             /\ rd[r].toolCalls = 1
                             /\ rd[r].updates = 1

\* C9 witness: a read_file that missed the cache has returned the graph of a
\* dump with two types and six declarations.
C9_Witness ==
    \E r \in DOMAIN rd :
        /\ Done(r) /\ rd[r].op = "file" /\ rd[r].error = ""
        /\ Missed(r)
        /\ rd[r].dump = "good"
        /\ Len(rd[r].trace) = 14

\* The declarations of a dump's table that are namespaces and in no scope's
\* membership.
RootNamespaces(g) ==
    {Obj(g, d) : d \in {x \in Range(DumpTable(g).decls) :
                           /\ IsNamespace(x)
                           /\ \A s \in Range(DumpTable(g).decls) :
                                 x \notin DumpTable(g).members[s]}}

\* C10: the list a read that parsed a dump returns is exactly the parentless
\* namespaces of the dump's declarations table, each once, and that list is
\* what it stored in the cache.
C10_OnlyRootNamespaces ==
    \A r \in DOMAIN rd :
        (Done(r) /\ Missed(r) /\ rd[r].error = "")
            => /\ ~rd[r].returned.isNone
               /\ Range(rd[r].returned.list) = RootNamespaces(rd[r].dump)
               /\ Len(rd[r].returned.list)
                     = Cardinality(RootNamespaces(rd[r].dump))
               /\ useCache => cache[rd[r].ffname].declarations = rd[r].returned

\* C10 witness: a read has returned the one root namespace of a dump that also
\* holds a nested namespace and a typedef and an enum outside any scope.
C10_Witness ==
    \E r \in DOMAIN rd :
        /\ Done(r) /\ Missed(r) /\ rd[r].error = ""
        /\ rd[r].dump = "good"
        /\ rd[r].returned = Value(<<Obj("good", "::")>>)
        /\ useCache /\ cache[rd[r].ffname].stored

\* C13 (as claimed): after a read of any kind that missed the cache and
\* succeeded, the cache entry of its key holds the returned declarations and
\* the file list the parse step returned.
C13_StoredFileList ==
    \A r \in DOMAIN rd :
        (useCache /\ Done(r) /\ Missed(r) /\ rd[r].error = "")
            => /\ cache[rd[r].ffname].stored
               /\ cache[rd[r].ffname].declarations = rd[r].returned
               /\ cache[rd[r].ffname].files = rd[r].files

\* C16: a read_xml_file never invokes the tool and creates no file, leaves
\* the dump it was given as it was, looks up the entry of the dump's resolved
\* path and changes no cache entry but that one, which after a miss that
\* succeeded holds what the read returned.
C16_XmlReadFrame ==
    \A r \in DOMAIN rd :
        rd[r].op = "xml"
            => /\ rd[r].toolCalls = 0
               /\ rd[r].created = {}
               /\ \A i \in 1..Len(rd[r].trace) :
                     rd[r].trace[i] # Stage("invoke")
               /\ \A f \in XmlFiles : fs[f] = FilesAtRest[f]
               /\ rd[r].ffname # NoPath
                    => /\ rd[r].ffname = join(WorkingDirectory, rd[r].source_file)
                       /\ \A k \in DOMAIN cache :
                             k # rd[r].ffname => cache[k] = rd[r].cacheBefore[k]
                       /\ rd[r].lookups = 1
                            => rd[r].lookup
                                 = cached_value(rd[r].ffname, rd[r].cacheBefore,
                                                fs, useCache)
                       /\ (useCache /\ Done(r) /\ Missed(r) /\ rd[r].error = "")
                            => /\ cache[rd[r].ffname].stored
                               /\ cache[rd[r].ffname].declarations
                                     = rd[r].returned

\* C16 witness: a read_xml_file was served from the cache entry an earlier
\* read_xml_file of the same dump stored, and the dump is still there.
C16_Witness ==
    \E r \in DOMAIN rd :
        /\ Done(r) /\ rd[r].op = "xml" /\ rd[r].error = ""
        /\ rd[r].lookups = 1 /\ ~IsFalsy(rd[r].lookup)
        /\ rd[r].returned = rd[r].lookup
        /\ rd[r].updates = 0
        /\ isfile(rd[r].ffname, fs)

\* C17: a reader constructed without a cache never gets a value from a
\* lookup and never stores one, and each read_file that returns, a repeated
\* one included, has invoked the tool once and run every stage.
C17_NoCacheFullPipeline ==
    ~useCache
        => /\ cache = [k \in Keys |-> NoEntry]
           /\ \A r \in DOMAIN rd :
                 /\ rd[r].lookup = None
                 /\ (rd[r].op = "file" /\ Done(r) /\ rd[r].error = "")
                      => /\ rd[r].toolCalls = 1
                         /\ rd[r].lookups = 1
                         /\ rd[r].updates = 1
                         /\ rd[r].trace = ExpectedStages(rd[r].dump)
                         /\ ~rd[r].returned.isNone

\* C17 witness: without a cache, a read_file of the path the call before it
\* read has returned after invoking the tool.
C17_Witness ==
    \E r \in DOMAIN rd :
        /\ ~useCache
        /\ Done(r) /\ rd[r].op = "file" /\ rd[r].again /\ rd[r].error = ""
        /\ rd[r].toolCalls = 1

\* ------------------------------------------ claims about path resolution
\* C14 (as claimed): the path a read resolved its argument to, which is its
\* cache key and the header the tool is given, is absolute and lies in the
\* earliest search directory that holds the file, the working directory
\* before the include paths.
C14_ResolvedAbsoluteInOrder ==
    \A r \in DOMAIN rd :
        rd[r].ffname # NoPath
            => /\ isabs(rd[r].ffname)
               /\ rd[r].ffname
                     = search(rd[r].source_file, search_directories, fs).path

\* C15 (as claimed): every path of a file list the parse step returned, and
\* of a file list stored in the cache, is absolute.
C15_FileListAbsolute ==
    /\ \A r \in DOMAIN rd :
          \A i \in 1..Len(rd[r].files) : isabs(rd[r].files[i])
    /\ \A k \in DOMAIN cache :
          \A i \in 1..Len(cache[k].files) : isabs(cache[k].files[i])

\* ------------------------------------- claims about concurrent invocations
\* A step leaves the graph an invocation has returned, and the aliases bound
\* in it, as they were, unless it is the start of that reader's next call.
GraphsKept ==
    \A q \in DOMAIN rd :
        (rd[q].pc = "done" /\ rd'[q].pc = "done")
            => /\ rd'[q].returned = rd[q].returned
               /\ rd'[q].bound = rd[q].bound

\* A step that removes a file is a step of the invocation that created it.
OwnTempsOnly ==
    \A f \in Files :
        (isfile(f, fs) /\ ~isfile(f, fs'))
            => \E r \in DOMAIN rd : rd'[r] # rd[r] /\ f \in rd[r].created

\* A step that changes a cache entry is the update of one invocation, and
\* the entry then holds that invocation's declarations and files together.
WholeEntries ==
    \A k \in DOMAIN cache :
        cache'[k] # cache[k]
            => \E r \in DOMAIN rd :
                  /\ rd[r].pc = "update" /\ rd'[r].pc = "return"
                  /\ rd[r].ffname = k
                  /\ cache'[k].stored
                  /\ cache'[k].declarations = rd[r].declarations
                  /\ cache'[k].files = rd[r].files

\* C19: with invocations interleaved at their steps, no step changes a graph
\* another invocation has returned, a file is removed only by the invocation
\* that created it, and a cache entry is only ever replaced by the whole
\* result of one invocation.
C19_NoInterference == [][GraphsKept /\ OwnTempsOnly /\ WholeEntries]_vars

\* C19 witness: two invocations on the same key both missed the cache and
\* returned different graphs, and the entry of the key is the result of the
\* one that updated last.
C19_Witness ==
    /\ DOMAIN rd = ConcReaders
    /\ \A r \in ConcReaders :
          /\ Done(r) /\ Missed(r) /\ rd[r].error = ""
          /\ rd[r].ffname = SourceFile
    /\ rd["r1"].returned = Value(<<>>)
    /\ rd["r2"].returned = Value(<<Obj("good", "::")>>)
    /\ rd["r2"].bound["A"] = <<"T1", "T2">>
    /\ cache[SourceFile].declarations = rd["r2"].returned
    /\ cache[SourceFile].files = rd["r2"].files

\* ------------------------------------ claims about create_xml_file itself
CreateOps == {"create_xml_file", "create_xml_file_from_string"}

\* The tool ran in the call that reader r has finished.
ToolRan(r) == Done(r) /\ rd[r].op \in CreateOps /\ rd[r].toolCalls = 1

\* C11 (as claimed): whenever the external process ended with a non-zero
\* exit status, create_xml_file raised the tool-invocation error, whatever
\* ignore_gccxml_output is and whether or not an output file was produced.
C11_NonZeroExitRaises ==
    \A r \in DOMAIN rd :
        (ToolRan(r) /\ rd[r].tool.exit # 0) => rd[r].error = "Tool"

\* C12: when the output file does not exist after the tool has ended,
\* create_xml_file raises, whatever the exit status, the reports and
\* ignore_gccxml_output are; a path it returns is the path of a file.
C12_AbsentOutputRaises ==
    \A r \in DOMAIN rd :
        ToolRan(r)
            => /\ (rd[r].destination # NoPath
                     /\ rd[r].tool.out \in {"nothing", "removed"})
                    => rd[r].error = "Tool"
               /\ (rd[r].destination = NoPath /\ rd[r].tool.out = "removed")
                    => rd[r].error = "Tool"
               /\ rd[r].error = ""
                    => /\ rd[r].gccxml_file # NoPath
                       /\ isfile(rd[r].gccxml_file, fs)
               /\ rd[r].error # "" => rd[r].gccxml_file = NoPath

\* C12 witness: with the tool's output ignored, a tool that ended with
\* status 0 and reported nothing left no file at the destination, and the
\* call raised.
C12_Witness ==
    \E r \in DOMAIN rd :
        /\ ToolRan(r) /\ ignore_gccxml_output
        /\ rd[r].destination = Destination
        /\ rd[r].tool = [exit |-> 0, msg |-> FALSE, out |-> "nothing"]
        /\ rd[r].error = "Tool"

\* The header as the command line names it.
HeaderHanded(r) ==
    IF isabs(rd[r].source_file) THEN rd[r].source_file
    ELSE join(WorkingDirectory, rd[r].source_file)

\* C20: after create_xml_file was called with a destination, either it
\* returned the destination and the file there is the dump this run of the
\* tool wrote, or it raised and there is no file at the destination.
C20_NoStaleDump ==
    \A r \in DOMAIN rd :
        (Done(r) /\ rd[r].op \in CreateOps /\ rd[r].destination # NoPath
           /\ rd[r].error # "Write")
            => IF rd[r].error = ""
               THEN /\ rd[r].gccxml_file = rd[r].destination
                    /\ rd[r].tool.out \in ToolDumps
                    /\ fs[rd[r].destination]
                          = Dump(rd[r].tool.out, <<HeaderHanded(r)>>)
               ELSE ~isfile(rd[r].destination, fs)

\* C20 witness: a dump of an earlier run was at the destination, the tool
\* ran and wrote nothing, the call raised and the destination is empty.
C20_Witness ==
    \E r \in DOMAIN rd :
        /\ ToolRan(r) /\ rd[r].replaced
        /\ rd[r].destination = Destination
        /\ rd[r].tool.out = "nothing"
        /\ rd[r].error = "Tool"
        /\ ~isfile(Destination, fs)

====
